---- MODULE Spec2Model ----
(***************************************************************************)
(* A model of solarplanets (index.mjs): the planetary-ephemeris pipeline   *)
(* of Curtis, "Orbital Mechanics for Engineering Students", 8.10.          *)
(*                                                                         *)
(* JavaScript Numbers are modelled as exact extended rationals <<n, d>>:   *)
(* d > 0 and gcd(n, d) = 1 for a finite value, <<0, 0>> for NaN and        *)
(* <<1, 0>>, <<-1, 0>> for +Infinity and -Infinity.  Arithmetic is exact   *)
(* (the rounding of IEEE-754 binary64 is not modelled, nor is -0).         *)
(*                                                                         *)
(* A Number that is not rational, or too large for the integers of the     *)
(* model checker, is kept as the term <<op, x, y>> of the operation that   *)
(* makes it: the square root of 2, the sine of 1, a product with 1.327e11. *)
(* Two equal terms are equal Numbers.                                      *)
(*                                                                         *)
(* Math.cos and Math.sin cannot be computed over the rationals.  An angle  *)
(* handed to them is modelled by the point <<cos, sin>> of the unit circle *)
(* it stands for, drawn from the points with rational coordinates.         *)
(***************************************************************************)
EXTENDS Integers, Sequences, FiniteSets, TLC

VARIABLES
    pc,           \* "start" (arguments drawn), "loop" (inside getEaFromMaE), "done"
    fn,           \* the function that is called
    args,         \* its arguments
    ret,          \* its return value (once pc = "done")
    E_rad,        \* getEaFromMaE: the estimate
    n,            \* getEaFromMaE: the iteration counter
    isConverged,  \* getEaFromMaE: the convergence flag
    isOverrun,    \* getEaFromMaE: the overrun flag
    r,            \* getEaFromMaE: the correction f / df of the last pass
    E_prev,       \* history: the estimate at the start of the last pass
    passes,       \* history: how often the loop body has been executed
    elements,     \* getRvFromElementsDatetime: the element record objects, by body
    dt,           \* getRvFromElementsDatetime: the Date object of each evaluation
    call          \* getRvFromElementsDatetime: each evaluation's body, stage, locals, result

vars == <<pc, fn, args, ret, E_rad, n, isConverged, isOverrun, r, E_prev, passes,
          elements, dt, call>>

---------------------------------------------------------------------------
(* Bounds of the model.                                                    *)

\* The calendar years drawn for getJ0FromDatevec are 2000 - YearsBack .. 2000 + YearsFwd.
YearsBack == 101
YearsFwd == 101
\* INT is applied to k / 4 and posmod(a, b) to a = k / 4 for |k| <= MaxNum.
MaxNum == 12
\* posmod(a, b) is applied to b = k / 4 for 1 <= k <= MaxMod.
MaxMod == 9
\* The angles drawn are the points (a / h, b / h) of the unit circle with integers
\* a, b and 1 <= h <= MaxHyp: the quarter turns and the angles of the 3-4-5 triangle.
MaxHyp == 5
\* The vectors drawn have integer components of magnitude at most MaxComp.
MaxComp == 1
\* The matrices drawn for transpose have 1..MaxDim rows and 1..MaxDim columns.
MaxDim == 3
\* The instants drawn for getRvFromElementsDatetime are noon UTC of 1 January of the
\* years 2000 + 100 * k, for |k| <= MaxCenturies.
MaxCenturies == 1
\* The angles in radians drawn for the geometry functions are the k / TurnParts of a
\* full turn 2 * Math.PI, for 0 <= k < TurnParts.
TurnParts == 8

---------------------------------------------------------------------------
(* Extended rational arithmetic: the Number type.                          *)

Sign(k) == IF k < 0 THEN -1 ELSE IF k > 0 THEN 1 ELSE 0
Abs(k) == IF k < 0 THEN -k ELSE k

RECURSIVE GCD(_, _)
GCD(a, b) == IF b = 0 THEN a ELSE GCD(b, a % b)

\* The Number n / d; n / 0 is NaN or an infinity by the sign of n.
Num(k, d) ==
    IF d = 0 THEN <<Sign(k), 0>>
    ELSE LET g == GCD(Abs(k), Abs(d))
         IN  <<Sign(k) * Sign(d) * (Abs(k) \div g), Abs(d) \div g>>

\* An integer literal.
I(k) == <<k, 1>>
NaN == <<0, 0>>
Infinity == <<1, 0>>

\* The Number that op makes of x and y, which is not computed; None for no operand.
None == <<>>
Term(op, x, y) == <<op, x, y>>
IsTerm(x) == Len(x) = 3
\* The literal m * 10^x.
Literal(m, x) == Term("e", I(m), I(x))
\* The value of an argument that is not passed, of a variable that is not assigned
\* and of a property that an object does not have: NaN when taken for a Number.
undefined == Term("undefined", None, None)

IsNaN(x) == x = NaN \/ x = undefined
IsFinite(x) == x[2] # 0
IsInteger(x) == x[2] = 1

Neg(x) == IF IsTerm(x) THEN Term("neg", x, None) ELSE <<-x[1], x[2]>>

\* a / b < c / d for b > 0 and d > 0, by continued fractions: no product is formed,
\* so that the comparison never leaves TLC's 32-bit integers.
RECURSIVE FracLt(_, _, _, _)
FracLt(a, b, c, d) ==
    LET qa == a \div b
        qc == c \div d
        ra == a % b
        rc == c % d
    IN  IF qa # qc THEN qa < qc
        ELSE IF rc = 0 THEN FALSE
        ELSE IF ra = 0 THEN TRUE
        ELSE FracLt(d, rc, b, ra)

\* x < y of JavaScript: false when either side is NaN.
Lt(x, y) ==
    IF IsNaN(x) \/ IsNaN(y) THEN FALSE
    ELSE IF ~IsFinite(x) THEN x[1] < 0 /\ y # x
    ELSE IF ~IsFinite(y) THEN y[1] > 0
    ELSE FracLt(x[1], x[2], y[1], y[2])

Le(x, y) == Lt(x, y) \/ (x = y /\ ~IsNaN(x))

\* A term stands for a finite Number: adding 0 to it or multiplying it by 1 leaves
\* it as it is, and 0 times it is 0.
x \oplus y ==
    IF IsNaN(x) \/ IsNaN(y) THEN NaN
    ELSE IF IsTerm(x) \/ IsTerm(y)
         THEN (IF x = <<0, 1>> THEN y ELSE IF y = <<0, 1>> THEN x ELSE Term("add", x, y))
    ELSE IF ~IsFinite(x) THEN (IF ~IsFinite(y) /\ y # x THEN NaN ELSE x)
    ELSE IF ~IsFinite(y) THEN y
    ELSE IF x[2] = y[2]
         THEN (IF x[2] = 1 THEN <<x[1] + y[1], 1>> ELSE Num(x[1] + y[1], x[2]))
    ELSE LET g == GCD(x[2], y[2])
             l == (x[2] \div g) * y[2]
         IN  Num(x[1] * (l \div x[2]) + y[1] * (l \div y[2]), l)

x \ominus y == x \oplus Neg(y)

x \otimes y ==
    IF IsNaN(x) \/ IsNaN(y) THEN NaN
    ELSE IF IsTerm(x) \/ IsTerm(y)
         THEN (IF x = <<0, 1>> \/ y = <<0, 1>> THEN <<0, 1>>
               ELSE IF x = <<1, 1>> THEN y
               ELSE IF y = <<1, 1>> THEN x
               ELSE Term("mul", x, y))
    ELSE IF ~IsFinite(x) \/ ~IsFinite(y)
         THEN (IF x[1] = 0 \/ y[1] = 0 THEN NaN ELSE <<Sign(x[1]) * Sign(y[1]), 0>>)
    ELSE IF x[1] = 0 \/ y[1] = 0 THEN <<0, 1>>
    ELSE IF x[2] = 1 /\ y[2] = 1 THEN <<x[1] * y[1], 1>>
    ELSE LET g1 == GCD(Abs(x[1]), y[2])
             g2 == GCD(Abs(y[1]), x[2])
         IN  <<(x[1] \div g1) * (y[1] \div g2), (x[2] \div g2) * (y[2] \div g1)>>

x \oslash y ==
    IF IsNaN(x) \/ IsNaN(y) THEN NaN
    ELSE IF IsTerm(x) \/ IsTerm(y)
         THEN (IF y = <<1, 1>> THEN x ELSE Term("div", x, y))
    ELSE IF ~IsFinite(y) THEN (IF IsFinite(x) THEN I(0) ELSE NaN)
    ELSE IF y[1] = 0 THEN <<Sign(x[1]), 0>>
    ELSE x \otimes <<Sign(y[1]) * y[2], Abs(y[1])>>

MathFloor(x) == IF IsFinite(x) THEN I(x[1] \div x[2]) ELSE x
MathAbs(x) == <<Abs(x[1]), x[2]>>

\* The largest integer whose square is at most k, by Newton's iteration from g.
RECURSIVE ISqrtFrom(_, _)
ISqrtFrom(k, g) ==
    LET h == (g + k \div g) \div 2
    IN  IF h >= g THEN g ELSE ISqrtFrom(k, h)
ISqrt(k) == IF k = 0 THEN 0 ELSE ISqrtFrom(k, k)
IsSquare(k) == ISqrt(k) * ISqrt(k) = k

\* Math.sqrt: exact for the square of a rational, a term for any other positive
\* Number.
MathSqrt(x) ==
    IF IsNaN(x) THEN NaN
    ELSE IF IsTerm(x) THEN Term("sqrt", x, None)
    ELSE IF x[1] < 0 THEN NaN
    ELSE IF ~IsFinite(x) THEN x
    ELSE IF IsSquare(x[1]) /\ IsSquare(x[2]) THEN <<ISqrt(x[1]), ISqrt(x[2])>>
    ELSE Term("sqrt", x, None)

\* a % b of JavaScript: the remainder of the division truncated toward zero, which
\* has the sign of a.
JsRem(a, b) ==
    IF IsTerm(a) \/ IsTerm(b) THEN (IF IsNaN(a) \/ IsNaN(b) THEN NaN ELSE Term("rem", a, b))
    ELSE IF ~IsFinite(a) \/ IsNaN(b) \/ b = I(0) THEN NaN
    ELSE IF ~IsFinite(b) THEN a
    ELSE LET q == a \oslash b
             t == IF q[1] < 0 THEN Neg(MathFloor(Neg(q))) ELSE MathFloor(q)
         IN  a \ominus (b \otimes t)

---------------------------------------------------------------------------
(* index.mjs: time conversion and the positive modulus.                    *)

INT(f) == IF Lt(f, I(0)) THEN MathFloor(f \oplus I(1)) ELSE MathFloor(f)

\* getUtFromTimevec with the seconds divided as if they were minutes.
getUtFromTimevec_secondsAsMinutes(h, m, s) == (h \oplus (m \oslash I(60))) \oplus (s \oslash I(60))

getUtFromTimevec(h, m, s) == (h \oplus (m \oslash I(60))) \oplus (s \oslash I(3600))

\* posmod without the correction of a negative remainder: the raw a % b.
posmod_raw(a, b) == JsRem(a, b)

\* For a remainder c that is a term, the conditional c < 0 ? c + b : c is a term too.
posmod(a, b) ==
    LET c == JsRem(a, b)
    IN  IF IsTerm(c) THEN Term("ifneg", c \oplus b, c)
        ELSE IF Lt(c, I(0)) THEN c \oplus b ELSE c

getJdFromDateTime(J0, UT) == J0 \oplus (UT \oslash I(24))

getJulianCenturies(JD) == (JD \ominus I(2451545)) \oslash I(36525)

\* getCurrentElements with the rate taken once, whatever the time.
getCurrentElements_rateOnce(Q0, dQ, T0) == Q0 \oplus dQ

getCurrentElements(Q0, dQ, T0) == Q0 \oplus (dQ \otimes T0)

MathPI == Num(314159265, 100000000)

\* getAopFromLopRaan without the positive modulus: the bare difference.
getAopFromLopRaan_unwrapped(lop_rad, raan_rad) == lop_rad \ominus raan_rad

getAopFromLopRaan(lop_rad, raan_rad) == posmod(lop_rad \ominus raan_rad, I(2) \otimes MathPI)

getMaFromMlLop(ml_rad, lop_rad) == posmod(ml_rad \ominus lop_rad, I(2) \otimes MathPI)

\* The conversion factors of getRvFromElementsDatetime.
d2r == MathPI \oslash I(180)
au2km == I(149597871)

\* Math.PI is taken for pi itself: the model knows the cosine, sine and tangent of a
\* whole number of eighths of a turn where they are rational, and keeps any other as
\* a term.  PartsOfPi(x, k) is x in units of Math.PI / k.
PartsOfPi(x, k) == x \oslash (MathPI \oslash I(k))

\* The angle atan2(y, x) of a point with whole coordinates at a whole distance from
\* the origin, e.g. atan2(4, 3): its cosine and sine are rational.
IsPythagorean(x) ==
    /\ IsTerm(x) /\ x[1] = "atan2"
    /\ ~IsTerm(x[2]) /\ ~IsTerm(x[3])
    /\ IsInteger(x[2]) /\ IsInteger(x[3])
    /\ x[2][1] * x[2][1] + x[3][1] * x[3][1] > 0
    /\ IsSquare(x[2][1] * x[2][1] + x[3][1] * x[3][1])
Hypotenuse(x) == ISqrt(x[2][1] * x[2][1] + x[3][1] * x[3][1])

\* The point <<cos, sin>> of the unit circle for the angle of x rad.
PointOf(x) ==
    IF IsNaN(x) THEN <<NaN, NaN>>
    ELSE IF IsPythagorean(x) THEN <<Num(x[3][1], Hypotenuse(x)), Num(x[2][1], Hypotenuse(x))>>
    ELSE IF IsTerm(x) THEN <<Term("cos", x, None), Term("sin", x, None)>>
    ELSE IF ~IsFinite(x) THEN <<NaN, NaN>>
    ELSE LET q == PartsOfPi(x, 2)
         IN  IF ~IsInteger(q) THEN <<Term("cos", x, None), Term("sin", x, None)>>
             ELSE IF q[1] % 4 = 0 THEN <<I(1), I(0)>>
             ELSE IF q[1] % 4 = 1 THEN <<I(0), I(1)>>
             ELSE IF q[1] % 4 = 2 THEN <<I(-1), I(0)>>
             ELSE <<I(0), I(-1)>>

\* Half such an angle, other than a quarter turn: its tangent is sin / (1 + cos).
IsHalfPythagorean(x) ==
    /\ IsTerm(x) /\ x[1] = "mul" /\ x[2] = Num(1, 2)
    /\ IsPythagorean(x[3])
    /\ Hypotenuse(x[3]) + x[3][3][1] # 0

\* Math.tan; at an odd number of quarter turns, where binary64 gives a number of
\* magnitude above 10^15, it is the infinity of the sign of x.
MathTan(x) ==
    IF IsNaN(x) THEN NaN
    ELSE IF IsHalfPythagorean(x) THEN Num(x[3][2][1], Hypotenuse(x[3]) + x[3][3][1])
    ELSE IF IsTerm(x) THEN Term("tan", x, None)
    ELSE IF ~IsFinite(x) THEN NaN
    ELSE LET q == PartsOfPi(x, 4)
         IN  IF ~IsInteger(q) THEN Term("tan", x, None)
             ELSE IF q[1] % 4 = 0 THEN I(0)
             ELSE IF q[1] % 4 = 1 THEN I(1)
             ELSE IF q[1] % 4 = 2 THEN <<Sign(x[1]), 0>>
             ELSE I(-1)

\* Math.atan2(y, x), where it is a rational part of Math.PI.
MathAtan2(y, x) ==
    IF IsNaN(y) \/ IsNaN(x) THEN NaN
    ELSE IF IsTerm(y) \/ IsTerm(x) THEN Term("atan2", y, x)
    ELSE IF y = I(0) /\ x[1] >= 0 THEN I(0)
    ELSE IF y = I(0) THEN MathPI
    ELSE IF x = I(0) \/ (~IsFinite(y) /\ IsFinite(x))
         THEN I(Sign(y[1])) \otimes (MathPI \oslash I(2))
    ELSE IF IsFinite(x) /\ x[1] > 0 /\ y = x THEN MathPI \oslash I(4)
    ELSE IF IsFinite(x) /\ x[1] > 0 /\ y = Neg(x) THEN Neg(MathPI \oslash I(4))
    ELSE Term("atan2", y, x)

MU_SUN_KM3PS2 == Literal(1327, 8)

\* A parameter with a default value: the default when the argument is not passed.
Default(arg, value) == IF arg = undefined THEN value ELSE arg

\* getAngularMomentum with the parameter mu_km3ps2 not looked at.
getAngularMomentum_sunOnly(a_km, e, mu_km3ps2) ==
    MathSqrt((MU_SUN_KM3PS2 \otimes a_km) \otimes (I(1) \ominus (e \otimes e)))

getAngularMomentum(a_km, e, mu_km3ps2) ==
    LET mu == Default(mu_km3ps2, MU_SUN_KM3PS2)
    IN  MathSqrt((mu \otimes a_km) \otimes (I(1) \ominus (e \otimes e)))

\* getTaFromEaE without the positive modulus.
getTaFromEaE_unwrapped(E, e) ==
    I(2) \otimes MathAtan2(MathTan(Num(1, 2) \otimes E) \otimes MathSqrt(I(1) \oplus e),
                            MathSqrt(I(1) \ominus e))

getTaFromEaE(E, e) ==
    LET ta_rad == I(2) \otimes MathAtan2(MathTan(Num(1, 2) \otimes E) \otimes MathSqrt(I(1) \oplus e),
                                          MathSqrt(I(1) \ominus e))
    IN  posmod(ta_rad, I(2) \otimes MathPI)

\* getRpqwFromHETht with the cosine of the true anomaly left out of the divisor.
getRpqwFromHETht_noCosine(h_km2ps, e, tht_rad, mu_km3ps2) ==
    LET mu == Default(mu_km3ps2, MU_SUN_KM3PS2)
        tht == PointOf(tht_rad)
        c == (h_km2ps \otimes h_km2ps) \oslash (mu \otimes (I(1) \oplus e))
    IN  <<c \otimes tht[1], c \otimes tht[2], I(0)>>

getRpqwFromHETht(h_km2ps, e, tht_rad, mu_km3ps2) ==
    LET mu == Default(mu_km3ps2, MU_SUN_KM3PS2)
        tht == PointOf(tht_rad)
        c == (h_km2ps \otimes h_km2ps) \oslash (mu \otimes (I(1) \oplus (e \otimes tht[1])))
    IN  <<c \otimes tht[1], c \otimes tht[2], I(0)>>

getVpqwFromHETht(h_km2ps, e, tht_rad, mu_km3ps2) ==
    LET mu == Default(mu_km3ps2, MU_SUN_KM3PS2)
        tht == PointOf(tht_rad)
        c == mu \oslash h_km2ps
    IN  <<c \otimes Neg(tht[2]), c \otimes (e \oplus tht[1]), I(0)>>

\* getJ0FromDatevec with the month term 275 * m / 9 taken before the year term
\* wraps: INT((m + 9) / 12) left out.
getJ0FromDatevec_noJanFeb(y, m, d) ==
    (I(367) \otimes y)
        \ominus INT((I(7) \otimes y) \oslash I(4))
        \oplus INT((I(275) \otimes m) \oslash I(9))
        \oplus d
        \oplus Num(17210135, 10)

\* getJ0FromDatevec with 30 * m for the days before month m.
getJ0FromDatevec_monthsOf30Days(y, m, d) ==
    (I(367) \otimes y)
        \ominus INT((I(7) \otimes (y \oplus INT((m \oplus I(9)) \oslash I(12)))) \oslash I(4))
        \oplus (I(30) \otimes m)
        \oplus d
        \oplus Num(17210135, 10)

getJ0FromDatevec(y, m, d) ==
    (I(367) \otimes y)
        \ominus INT((I(7) \otimes (y \oplus INT((m \oplus I(9)) \oslash I(12)))) \oslash I(4))
        \oplus INT((I(275) \otimes m) \oslash I(9))
        \oplus d
        \oplus Num(17210135, 10)

---------------------------------------------------------------------------
(* index.mjs: rotation matrices and the linear algebra.  A vector is a     *)
(* sequence of Numbers and a matrix a sequence of rows; JavaScript's index *)
(* i is index i + 1 here.                                                  *)

\* Math.cos and Math.sin of an angle given as its point of the unit circle.
MathCos(rad) == rad[1]
MathSin(rad) == rad[2]

\* r1 with the sign of the sine terms exchanged: the rotation the other way round.
r1_clockwise(rad) ==
    LET c == MathCos(rad)
        s == MathSin(rad)
    IN  << <<I(1), I(0), I(0)>>,
           <<I(0), c, s>>,
           <<I(0), Neg(s), c>> >>

r1(rad) ==
    LET c == MathCos(rad)
        s == MathSin(rad)
    IN  << <<I(1), I(0), I(0)>>,
           <<I(0), c, Neg(s)>>,
           <<I(0), s, c>> >>

r3(rad) ==
    LET c == MathCos(rad)
        s == MathSin(rad)
    IN  << <<c, Neg(s), I(0)>>,
           <<s, c, I(0)>>,
           <<I(0), I(0), I(1)>> >>

\* R1 with the signs of r1: the frame transformation taken for the rotation.
R1_asRotation(rad) ==
    LET c == MathCos(rad)
        s == MathSin(rad)
    IN  << <<I(1), I(0), I(0)>>,
           <<I(0), c, Neg(s)>>,
           <<I(0), s, c>> >>

R1(rad) ==
    LET c == MathCos(rad)
        s == MathSin(rad)
    IN  << <<I(1), I(0), I(0)>>,
           <<I(0), c, s>>,
           <<I(0), Neg(s), c>> >>

R3(rad) ==
    LET c == MathCos(rad)
        s == MathSin(rad)
    IN  << <<c, s, I(0)>>,
           <<Neg(s), c, I(0)>>,
           <<I(0), I(0), I(1)>> >>

\* The loop of getDotProd from index i on, with the sum so far.
RECURSIVE DotProdLoop(_, _, _, _)
DotProdLoop(lhs, rhs, i, sum) ==
    IF i < Len(lhs)
    THEN DotProdLoop(lhs, rhs, i + 1, sum \oplus (lhs[i + 1] \otimes rhs[i + 1]))
    ELSE sum

getDotProd(lhs, rhs) == DotProdLoop(lhs, rhs, 0, I(0))

getMatVec(lhs, rhs) ==
    LET row1 == <<lhs[1][1], lhs[1][2], lhs[1][3]>>
        row2 == <<lhs[2][1], lhs[2][2], lhs[2][3]>>
        row3 == <<lhs[3][1], lhs[3][2], lhs[3][3]>>
    IN  <<getDotProd(row1, rhs), getDotProd(row2, rhs), getDotProd(row3, rhs)>>

\* getMatMul with the rows of rhs taken for its columns.
getMatMul_rowsByRows(lhs, rhs) ==
    LET row1 == <<lhs[1][1], lhs[1][2], lhs[1][3]>>
        row2 == <<lhs[2][1], lhs[2][2], lhs[2][3]>>
        row3 == <<lhs[3][1], lhs[3][2], lhs[3][3]>>
        c1 == <<rhs[1][1], rhs[1][2], rhs[1][3]>>
        c2 == <<rhs[2][1], rhs[2][2], rhs[2][3]>>
        c3 == <<rhs[3][1], rhs[3][2], rhs[3][3]>>
    IN  << <<getDotProd(row1, c1), getDotProd(row1, c2), getDotProd(row1, c3)>>,
           <<getDotProd(row2, c1), getDotProd(row2, c2), getDotProd(row2, c3)>>,
           <<getDotProd(row3, c1), getDotProd(row3, c2), getDotProd(row3, c3)>> >>

getMatMul(lhs, rhs) ==
    LET row1 == <<lhs[1][1], lhs[1][2], lhs[1][3]>>
        row2 == <<lhs[2][1], lhs[2][2], lhs[2][3]>>
        row3 == <<lhs[3][1], lhs[3][2], lhs[3][3]>>
        c1 == <<rhs[1][1], rhs[2][1], rhs[3][1]>>
        c2 == <<rhs[1][2], rhs[2][2], rhs[3][2]>>
        c3 == <<rhs[1][3], rhs[2][3], rhs[3][3]>>
    IN  << <<getDotProd(row1, c1), getDotProd(row1, c2), getDotProd(row1, c3)>>,
           <<getDotProd(row2, c1), getDotProd(row2, c2), getDotProd(row2, c3)>>,
           <<getDotProd(row3, c1), getDotProd(row3, c2), getDotProd(row3, c3)>> >>

\* getQeci2pqw with the two rotations about z exchanged.
getQeci2pqw_swapped(raan_rad, inc_rad, aop_rad) ==
    LET R31 == getMatMul(R3(raan_rad), R1(inc_rad))
    IN  getMatMul(R31, R3(aop_rad))

getQeci2pqw(raan_rad, inc_rad, aop_rad) ==
    LET R31 == getMatMul(R3(aop_rad), R1(inc_rad))
    IN  getMatMul(R31, R3(raan_rad))

\* transpose works on arrays of arrays.  An array is known by its reference and the
\* heap gives the elements of each: the references 1..I are the rows of the argument
\* M, and the rows of Mt are allocated after them.
\* new Array(J).fill(null).map(_ => ...) with one array for all the rows.
NewRows_shared(II, JJ) == [j \in 1..JJ |-> II + 1]

\* new Array(J).fill(null).map(_ => new Array(I).fill(0)): a new array for each row.
NewRows(II, JJ) == [j \in 1..JJ |-> II + j]

\* The two loops of transpose from (i, j) on: Mt[j][i] = M[i][j].
RECURSIVE transposeLoop(_, _, _, _, _)
transposeLoop(M, Mt, heap, i, j) ==
    IF ~(i < Len(M)) THEN heap
    ELSE IF ~(j < Len(Mt)) THEN transposeLoop(M, Mt, heap, i + 1, 0)
    ELSE transposeLoop(M, Mt, [heap EXCEPT ![Mt[j + 1]][i + 1] = heap[M[i + 1]][j + 1]], i, j + 1)

\* The rows of Mt and the heap when transpose returns, for the matrix A.
transposeRun(A) ==
    LET II == Len(A)
        JJ == Len(A[1])
        M == [i \in 1..II |-> i]
        Mt == NewRows(II, JJ)
        heap == [ref \in 1..(II + JJ) |-> IF ref <= II THEN A[ref] ELSE [i \in 1..II |-> I(0)]]
    IN  [M |-> M, Mt |-> Mt, heap |-> transposeLoop(M, Mt, heap, 0, 0)]

\* The array of arrays that a sequence of references stands for.
Deref(refs, heap) == [k \in 1..Len(refs) |-> heap[refs[k]]]

transpose(A) == LET run == transposeRun(A) IN Deref(run.Mt, run.heap)

\* getQpqw2eci returning the matrix of getQeci2pqw as it is.
getQpqw2eci_untransposed(raan_rad, inc_rad, aop_rad) ==
    getQeci2pqw(raan_rad, inc_rad, aop_rad)

getQpqw2eci(raan_rad, inc_rad, aop_rad) ==
    LET Qeci2pqw == getQeci2pqw(raan_rad, inc_rad, aop_rad)
    IN  transpose(Qeci2pqw)

---------------------------------------------------------------------------
(* index.mjs: getEaFromMaE, Newton's iteration on Kepler's equation.  The  *)
(* loop is taken one pass at a time.  Math.sin(E) and Math.cos(E) of an    *)
(* estimate E are not computable here: each pass draws the point of the    *)
(* unit circle that E stands for from ProbeAngles, which over-approximates *)
(* the corrections f / df the code can see; all other arithmetic of the    *)
(* pass is the code's.  Math.sin and Math.cos of NaN or an infinity are    *)
(* NaN.                                                                    *)

nMax == 1000
tol == Num(1, 100000000)

ProbeAngles == {<<I(1), I(0)>>, <<I(0), I(1)>>, <<I(0), I(-1)>>}
AnglesOf(x) == IF IsFinite(x) THEN ProbeAngles ELSE {<<NaN, NaN>>}

\* The first estimate with M_rad = Math.PI on the side of the smaller anomalies.
FirstEstimate_piAdds(M_rad, e) ==
    IF Le(M_rad, MathPI) THEN M_rad \oplus (Num(1, 2) \otimes e) ELSE M_rad \ominus (Num(1, 2) \otimes e)

FirstEstimate(M_rad, e) ==
    IF Lt(M_rad, MathPI) THEN M_rad \oplus (Num(1, 2) \otimes e) ELSE M_rad \ominus (Num(1, 2) \otimes e)

\* f / df at the estimate E, which stands for the angle a.
Correction(E, a, M_rad, e) ==
    LET f == (E \ominus (e \otimes MathSin(a))) \ominus M_rad
        df == I(1) \ominus (e \otimes MathCos(a))
    IN  f \oslash df

\* The convergence test with a correction of 0 not counted as converged.
Converged_nonzero(rr) == Lt(I(0), MathAbs(rr)) /\ Lt(MathAbs(rr), tol)

\* isConverged = Math.abs(r) < tol.
Converged(rr) == Lt(MathAbs(rr), tol)

\* The estimate after a pass, with the correction never applied.
UpdatedEstimate_kept(E, rr, converged) == E

\* The estimate after a pass, with the correction applied also when it is below the
\* tolerance.
UpdatedEstimate_always(E, rr, converged) == E \ominus rr

UpdatedEstimate(E, rr, converged) == IF ~converged THEN E \ominus rr ELSE E

\* isOverrun never set.
Overrun_never(k) == FALSE

\* isOverrun = nMax < n, for the counter k after its increment.
Overrun(k) == nMax < k

\* getEaFromMaE as a function of its arguments: the loop from the estimate E after
\* k passes, with Math.sin and Math.cos of the estimate as PointOf gives them.  A
\* correction that is a term cannot be compared to the tolerance: the value
\* returned is then kept as the term getEaFromMaE(M_rad, e).  An estimate that is
\* NaN stays NaN in every pass (its correction is NaN, which is not below the
\* tolerance, and NaN - NaN is NaN), so that the loop leaves by its cap with NaN.
RECURSIVE getEaFromMaELoop(_, _, _, _)
getEaFromMaELoop(E, k, M_rad, e) ==
    LET rr == Correction(E, PointOf(E), M_rad, e)
        converged == Converged(rr)
        overrun == Overrun(k + 1)
        next == UpdatedEstimate(E, rr, converged)
    IN  IF IsNaN(E) THEN NaN
        ELSE IF IsTerm(rr) /\ ~IsNaN(rr) THEN Term("getEaFromMaE", M_rad, e)
        ELSE IF converged \/ overrun THEN next
        ELSE getEaFromMaELoop(next, k + 1, M_rad, e)

\* getEaFromMaE with a check of its arguments, which gives nothing for a mean
\* anomaly that is not a Number and for an eccentricity outside [0, 1).
getEaFromMaE_rejecting(M_rad, e) ==
    IF IsNaN(M_rad) \/ IsNaN(e) \/ ~(Le(I(0), e) /\ Lt(e, I(1))) THEN undefined
    ELSE getEaFromMaELoop(FirstEstimate(M_rad, e), 0, M_rad, e)

getEaFromMaE(M_rad, e) == getEaFromMaELoop(FirstEstimate(M_rad, e), 0, M_rad, e)

---------------------------------------------------------------------------
(* index.mjs: getRvFromElementsDatetime, stage by stage.  A Date object is *)
(* the record of its UTC fields; the locals of a call are a record of the  *)
(* constants declared so far.                                              *)

getUTCFullYear(date) == date.FullYear
getUTCMonth(date) == date.Month
getUTCDate(date) == date.Date
getUTCHours(date) == date.Hours
getUTCMinutes(date) == date.Minutes
getUTCSeconds(date) == date.Seconds
getUTCMilliseconds(date) == date.Milliseconds

\* The time conversion with the month index of the Date taken for the month.
TimeConversion_monthIndex(date) ==
    LET y == getUTCFullYear(date)
        m == getUTCMonth(date)
        d == getUTCDate(date)
        H == getUTCHours(date)
        M == getUTCMinutes(date)
        S == getUTCSeconds(date) \oplus (getUTCMilliseconds(date) \otimes Num(1, 1000))
        J0 == getJ0FromDatevec(y, m, d)
        UT == getUtFromTimevec(H, M, S)
        JD == getJdFromDateTime(J0, UT)
        T0 == getJulianCenturies(JD)
    IN  [y |-> y, m |-> m, d |-> d, H |-> H, M |-> M, S |-> S,
         J0 |-> J0, UT |-> UT, JD |-> JD, T0 |-> T0]

\* The Julian date and the Julian centuries of the Date.
TimeConversion(date) ==
    LET y == getUTCFullYear(date)
        m == getUTCMonth(date) \oplus I(1)
        d == getUTCDate(date)
        H == getUTCHours(date)
        M == getUTCMinutes(date)
        S == getUTCSeconds(date) \oplus (getUTCMilliseconds(date) \otimes Num(1, 1000))
        J0 == getJ0FromDatevec(y, m, d)
        UT == getUtFromTimevec(H, M, S)
        JD == getJdFromDateTime(J0, UT)
        T0 == getJulianCenturies(JD)
    IN  [y |-> y, m |-> m, d |-> d, H |-> H, M |-> M, S |-> S,
         J0 |-> J0, UT |-> UT, JD |-> JD, T0 |-> T0]

\* The planetary elements at T0, converted.
ElementInterpolation(l, poe) ==
    LET TwoPI == I(2) \otimes MathPI
        a_km == getCurrentElements(poe.a_au \otimes au2km, poe.da_au \otimes au2km, l.T0)
        e == getCurrentElements(poe.e, poe.de, l.T0)
        inc_rad == posmod(getCurrentElements(poe.inc_deg \otimes d2r, (poe.dinc_sec \oslash I(3600)) \otimes d2r, l.T0), TwoPI)
        raan_rad == posmod(getCurrentElements(poe.raan_deg \otimes d2r, (poe.draan_sec \oslash I(3600)) \otimes d2r, l.T0), TwoPI)
        lop_rad == posmod(getCurrentElements(poe.lop_deg \otimes d2r, (poe.dlop_sec \oslash I(3600)) \otimes d2r, l.T0), TwoPI)
        ml_rad == posmod(getCurrentElements(poe.ml_deg \otimes d2r, (poe.dml_sec \oslash I(3600)) \otimes d2r, l.T0), TwoPI)
    IN  [a_km |-> a_km, e |-> e, inc_rad |-> inc_rad, raan_rad |-> raan_rad,
         lop_rad |-> lop_rad, ml_rad |-> ml_rad]

\* Angular momentum, argument of periapsis and mean anomaly.
GeometryDerivation(l) ==
    [h_km2ps |-> getAngularMomentum(l.a_km, l.e, undefined),
     aop_rad |-> getAopFromLopRaan(l.lop_rad, l.raan_rad),
     M_rad |-> getMaFromMlLop(l.ml_rad, l.lop_rad)]

EccentricAnomaly(l) == [E_rad |-> getEaFromMaE(l.M_rad, l.e)]

TrueAnomaly(l) == [tht_rad |-> getTaFromEaE(l.E_rad, l.e)]

PerifocalState(l) ==
    [rPqw_km |-> getRpqwFromHETht(l.h_km2ps, l.e, l.tht_rad, undefined),
     vPqw_kmps |-> getVpqwFromHETht(l.h_km2ps, l.e, l.tht_rad, undefined)]

FrameTransform(l) ==
    LET Qpqw2eci == getQpqw2eci(PointOf(l.raan_rad), PointOf(l.inc_rad), PointOf(l.aop_rad))
    IN  [Qpqw2eci |-> Qpqw2eci,
         rHcec_km |-> getMatVec(Qpqw2eci, l.rPqw_km),
         vHcec_kmps |-> getMatVec(Qpqw2eci, l.vPqw_kmps)]

\* The pair returned with the velocity first.
ReturnValue_velocityFirst(l) == <<l.vHcec_kmps, l.rHcec_km>>

ReturnValue(l) == <<l.rHcec_km, l.vHcec_kmps>>

\* The element record after the interpolation, which only reads it; here with the
\* eccentricity at T0 written back to it.
ElementsAfterInterpolation_writeBack(objects, body, l) == [objects EXCEPT ![body].e = l.e]

ElementsAfterInterpolation(objects, body, l) == objects

\* What a stage declares becomes a local of its call; here it becomes one set of
\* variables that all calls share.
Declare_shared(calls, ev, new) == [k \in DOMAIN calls |-> [calls[k] EXCEPT !.locals = new @@ @]]

Declare(calls, ev, new) == [calls EXCEPT ![ev].locals = new @@ @]

\* The call as a function of its arguments: the stages one after the other.
getRvFromElementsDatetime(planetaryOrbitalElements, date) ==
    LET l1 == TimeConversion(date)
        l2 == l1 @@ ElementInterpolation(l1, planetaryOrbitalElements)
        l3 == l2 @@ GeometryDerivation(l2)
        l4 == l3 @@ EccentricAnomaly(l3)
        l5 == l4 @@ TrueAnomaly(l4)
        l6 == l5 @@ PerifocalState(l5)
        l7 == l6 @@ FrameTransform(l6)
    IN  ReturnValue(l7)

---------------------------------------------------------------------------
(* The calls that are made: each behaviour draws one call and applies it.  *)

IsLeapYear(y) == (y % 4 = 0 /\ y % 100 # 0) \/ y % 400 = 0
DaysInMonth(y, m) ==
    IF m = 2 THEN (IF IsLeapYear(y) THEN 29 ELSE 28)
    ELSE IF m \in {4, 6, 9, 11} THEN 30 ELSE 31

Years == (2000 - YearsBack)..(2000 + YearsFwd)
Dates == {<<I(y), I(m), I(d)>> : y \in Years, m \in 1..12, d \in 1..31}
ValidDate(a) == a[3][1] <= DaysInMonth(a[1][1], a[2][1])

Quarters == {Num(k, 4) : k \in (-MaxNum)..MaxNum}
Moduli == {Num(k, 4) : k \in 1..MaxMod}

InitLocals ==
    /\ pc = "start"
    /\ ret = NaN
    /\ E_rad = NaN
    /\ n = 0
    /\ isConverged = FALSE
    /\ isOverrun = FALSE
    /\ r = NaN
    /\ E_prev = NaN
    /\ passes = 0
    /\ elements = <<>>
    /\ dt = <<>>
    /\ call = <<>>

InitTime ==
    /\ InitLocals
    /\ \/ fn = "INT" /\ args \in {<<f>> : f \in Quarters}
       \/ fn = "getJ0FromDatevec" /\ args \in {a \in Dates : ValidDate(a)}

\* The angles of [0, 2 * Math.PI) drawn: the parts of a full turn and 1, 3 and 6 rad.
TurnAngles ==
    {(Num(k, TurnParts) \otimes I(2)) \otimes MathPI : k \in 0..(TurnParts - 1)}
        \cup {I(1), I(3), I(6)}

\* The times of day drawn for getUtFromTimevec: every hour, the minute at both ends
\* and in between, and the second at both ends, with a fraction and with milliseconds.
Hours == {I(k) : k \in 0..23}
Minutes == {I(0), I(1), I(30), I(45), I(59)}
Seconds == {I(0), Num(1, 2), I(30), I(59), Num(59999, 1000)}
\* The day numbers and the hours (every quarter of an hour, and outside the day)
\* drawn for getJdFromDateTime.
DayNumbers == {I(0), Num(-7, 2), Num(4903089, 2), Num(4906275, 2)}
HoursOfDay == {Num(k, 4) : k \in 0..95}
\* The values, the rates per century and the centuries drawn for getCurrentElements.
BaseValues == {I(-2), Num(-1, 2), I(0), I(1), Num(3, 2)}
Rates == {I(-1), I(0), Num(1, 2)}
Centuries == {I(-1), I(0), Num(1, 2), I(2)}

InitClock ==
    /\ InitLocals
    /\ \/ fn = "getUtFromTimevec" /\ args \in Hours \X Minutes \X Seconds
       \/ fn = "getJdFromDateTime" /\ args \in DayNumbers \X (HoursOfDay \cup {I(24), I(-1)})
       \/ fn = "getJulianCenturies" /\ args \in {<<JD>> : JD \in DayNumbers}
       \/ fn = "getCurrentElements" /\ args \in BaseValues \X Rates \X Centuries

InitMod ==
    /\ InitLocals
    /\ \/ fn = "posmod" /\ args \in Quarters \X Moduli
       \/ fn \in {"getAopFromLopRaan", "getMaFromMlLop"} /\ args \in TurnAngles \X TurnAngles

Angles ==
    {<<Num(a, h), Num(b, h)>> : <<a, b, h>> \in
        {t \in ((-MaxHyp)..MaxHyp) \X ((-MaxHyp)..MaxHyp) \X (1..MaxHyp) :
            t[1] * t[1] + t[2] * t[2] = t[3] * t[3]}}
Components == {I(k) : k \in (-MaxComp)..MaxComp}
Vectors == Components \X Components \X Components
Rotations == {r1(a) : a \in Angles} \cup {r3(a) : a \in Angles}

\* The matrices drawn for transpose: every shape up to MaxDim by MaxDim with entries
\* 0 and 1, and the 2-by-3 matrix of the repository's test.
RectMatrices ==
    UNION {[1..m -> [1..k -> {I(0), I(1)}]] : <<m, k>> \in (1..MaxDim) \X (1..MaxDim)}
        \cup {<< <<I(1), I(2), I(3)>>, <<I(4), I(5), I(6)>> >>}
\* The 3-by-3 matrices drawn for the products: entry (i, j) is a * i + b * j + c, with
\* the identity and the matrices of the repository's tests.
IntMatrices ==
    {[i \in 1..3 |-> [j \in 1..3 |-> I(a[1] * i + b[1] * j + c[1])]] : a \in Components, b \in Components, c \in Components}
        \cup {<< <<I(1), I(0), I(0)>>, <<I(0), I(1), I(0)>>, <<I(0), I(0), I(1)>> >>,
               << <<I(1), I(2), I(3)>>, <<I(4), I(5), I(6)>>, <<I(7), I(8), I(9)>> >>,
               << <<I(1), I(0), I(2)>>, <<I(0), I(3), I(0)>>, <<I(4), I(0), I(5)>> >>,
               << <<I(0), I(6), I(0)>>, <<I(7), I(0), I(8)>>, <<I(0), I(9), I(0)>> >>}

InitAlgebra ==
    /\ InitLocals
    /\ \/ fn = "transpose" /\ args \in {<<A>> : A \in RectMatrices}
       \/ fn = "getMatMul" /\ args \in IntMatrices \X IntMatrices
       \/ fn = "getMatVec" /\ args \in IntMatrices \X Vectors
       \/ fn = "getDotProd" /\ args \in (Vectors \X Vectors) \cup {<< <<I(1), I(2), I(3)>>, <<I(4), I(-5), I(6)>> >>}

\* The element records drawn: a circular orbit with angles and rates of whole
\* quarter turns; an orbit with negative angles, an angle above a full turn and
\* negative rates; an eccentric orbit, with a rate of the eccentricity; a record
\* whose eccentricity is above 1; and a record without the field ml_deg, whose
\* read gives undefined.
ElementsOf(body) ==
    IF body = "circular" THEN
        [a_au |-> I(1), da_au |-> I(0), e |-> I(0), de |-> I(0),
         inc_deg |-> I(0), dinc_sec |-> I(0), raan_deg |-> I(90), draan_sec |-> I(324000),
         lop_deg |-> I(180), dlop_sec |-> I(0), ml_deg |-> I(90), dml_sec |-> I(-324000)]
    ELSE IF body = "retrograde" THEN
        [a_au |-> Num(3, 2), da_au |-> Num(-1, 2), e |-> I(0), de |-> I(0),
         inc_deg |-> I(-45), dinc_sec |-> I(-162000), raan_deg |-> I(-90), draan_sec |-> I(-324000),
         lop_deg |-> I(405), dlop_sec |-> I(162000), ml_deg |-> I(-450), dml_sec |-> I(-486000)]
    ELSE IF body = "eccentric" THEN
        [a_au |-> I(1), da_au |-> I(0), e |-> Num(3, 5), de |-> Num(-1, 10),
         inc_deg |-> I(45), dinc_sec |-> I(0), raan_deg |-> I(0), draan_sec |-> I(0),
         lop_deg |-> I(90), dlop_sec |-> I(0), ml_deg |-> I(180), dml_sec |-> I(0)]
    ELSE IF body = "hyperbolic" THEN
        [a_au |-> I(1), da_au |-> I(0), e |-> Num(3, 2), de |-> I(0),
         inc_deg |-> I(45), dinc_sec |-> I(0), raan_deg |-> I(0), draan_sec |-> I(0),
         lop_deg |-> I(90), dlop_sec |-> I(0), ml_deg |-> I(180), dml_sec |-> I(0)]
    ELSE
        [a_au |-> I(1), da_au |-> I(0), e |-> I(0), de |-> I(0),
         inc_deg |-> I(0), dinc_sec |-> I(0), raan_deg |-> I(90), draan_sec |-> I(324000),
         lop_deg |-> I(180), dlop_sec |-> I(0), ml_deg |-> undefined, dml_sec |-> I(-324000)]
Bodies == {"circular", "retrograde", "eccentric", "hyperbolic", "incomplete"}
\* new Date(Date.UTC(2000 + 100 * k, 0, 1, 12)).
Instant(k) ==
    [FullYear |-> I(2000 + 100 * k), Month |-> I(0), Date |-> I(1),
     Hours |-> I(12), Minutes |-> I(0), Seconds |-> I(0), Milliseconds |-> I(0)]
Instants == {Instant(k) : k \in (-MaxCenturies)..MaxCenturies}
\* Two evaluations are under way.
Evals == {1, 2}

InitPipeline ==
    /\ pc = "start"
    /\ fn = "getRvFromElementsDatetime"
    /\ args = <<>>
    /\ ret = NaN
    /\ E_rad = NaN
    /\ n = 0
    /\ isConverged = FALSE
    /\ isOverrun = FALSE
    /\ r = NaN
    /\ E_prev = NaN
    /\ passes = 0
    /\ elements = [body \in Bodies |-> ElementsOf(body)]
    /\ dt \in [Evals -> Instants]
    /\ call \in {[ev \in Evals |-> [body |-> b[ev], stage |-> 0, locals |-> <<>>, result |-> undefined]] :
                    b \in [Evals -> Bodies]}

\* True anomalies with a rational cosine and sine, one in each of three quadrants.
PythagoreanAngles ==
    {Term("atan2", I(4), I(3)), Term("atan2", I(3), I(-4)), Term("atan2", I(-4), I(-3))}
\* Eccentric anomalies in [0, 2 pi) whose half has a rational tangent: the quarter
\* turns and two 3-4-5 angles; with the eccentricities 0 and 24/25, for which the
\* roots of 1 + e and 1 - e are rational.
EccentricAnomalies ==
    {I(k) \otimes (MathPI \oslash I(2)) : k \in 0..3}
        \cup {Term("atan2", I(4), I(3)), Term("atan2", I(3), I(-4))}
\* The calls of getTaFromEaE, and of the functions that take the gravitational
\* parameter, with and without it.
Parameters == {undefined, I(4), MU_SUN_KM3PS2}
InitGeometry ==
    /\ InitLocals
    /\ \/ fn = "getTaFromEaE" /\ args \in EccentricAnomalies \X {I(0), Num(24, 25)}
       \/ fn = "getAngularMomentum"
            /\ args \in ({I(9)} \X {I(0), Num(3, 5)} \X Parameters)
                          \cup ({au2km} \X {I(0), Num(3, 5)} \X {undefined, MU_SUN_KM3PS2})
       \/ fn \in {"getRpqwFromHETht", "getVpqwFromHETht"}
            /\ args \in {I(6)} \X {I(0), Num(3, 5)} \X (TurnAngles \cup PythagoreanAngles) \X Parameters

InitFrame ==
    /\ InitLocals
    /\ \/ fn \in {"r1", "r3", "R1", "R3"} /\ args \in {<<a>> : a \in Angles}
       \/ fn = "getMatVec" /\ args \in Rotations \X Vectors
       \/ fn \in {"getQeci2pqw", "getQpqw2eci"} /\ args \in Angles \X Angles \X Angles

\* The (M, e) handed to getEaFromMaE: mean anomalies on both sides of pi and pi
\* itself, with a circular orbit and with an eccentricity below the tolerance;
\* e = 1/2 on both sides of pi; e = 1, where df can be 0; NaN and infinite
\* arguments; and e = 7.5e-9, whose corrections fall on both sides of the tolerance.
MeanAnomalies == {I(0), I(1), MathPI, I(4)}
Eccentricities == {I(0), Num(1, 200000000)}
SolverInputs ==
    (MeanAnomalies \X Eccentricities)
        \cup {<<I(1), Num(1, 2)>>, <<I(4), Num(1, 2)>>, <<I(1), I(1)>>,
              <<I(1), Num(3, 400000000)>>,
              <<NaN, Num(1, 2)>>, <<I(1), NaN>>, <<Infinity, I(0)>>}

InitSolver ==
    /\ InitLocals
    /\ fn = "getEaFromMaE"
    /\ args \in SolverInputs

getEaFromMaE_enter ==
    /\ pc = "start"
    /\ fn = "getEaFromMaE"
    /\ E_rad' = FirstEstimate(args[1], args[2])
    /\ isConverged' = FALSE
    /\ isOverrun' = FALSE
    /\ n' = 0
    /\ pc' = "loop"
    /\ UNCHANGED <<fn, args, ret, r, E_prev, passes, elements, dt, call>>

getEaFromMaE_pass ==
    /\ pc = "loop"
    /\ ~isConverged /\ ~isOverrun
    /\ \E a \in AnglesOf(E_rad) :
        LET rr == Correction(E_rad, a, args[1], args[2])
            converged == Converged(rr)
        IN  /\ r' = rr
            /\ n' = n + 1
            /\ isConverged' = converged
            /\ isOverrun' = Overrun(n + 1)
            /\ E_rad' = UpdatedEstimate(E_rad, rr, converged)
    /\ E_prev' = E_rad
    /\ passes' = passes + 1
    /\ UNCHANGED <<pc, fn, args, ret, elements, dt, call>>

getEaFromMaE_return ==
    /\ pc = "loop"
    /\ ~(~isConverged /\ ~isOverrun)
    /\ ret' = E_rad
    /\ pc' = "done"
    /\ UNCHANGED <<fn, args, E_rad, n, isConverged, isOverrun, r, E_prev, passes, elements, dt, call>>

NextSolver == getEaFromMaE_enter \/ getEaFromMaE_pass \/ getEaFromMaE_return
SpecSolver == InitSolver /\ [][NextSolver]_vars
\* A call that has not returned takes a step: in every such state one of the three
\* actions of NextSolver is enabled (the guards of a pass and of the return are
\* complementary), and every step of SpecSolver that changes vars is one of them.
\* Each of them changes pc or counts a pass.
SolverStep ==
    /\ fn = "getEaFromMaE"
    /\ pc # "done"
    /\ pc' \in {"loop", "done"}
    /\ passes' \in {passes, passes + 1}
\* A call that has begun runs on: the function is synchronous, and no step of it
\* waits for anything.
SpecSolverLive == SpecSolver /\ WF_<<pc, passes>>(SolverStep)

Return(name, value) ==
    /\ pc = "start"
    /\ fn = name
    /\ pc' = "done"
    /\ ret' = value
    /\ UNCHANGED <<fn, args, E_rad, n, isConverged, isOverrun, r, E_prev, passes, elements, dt, call>>

CallINT == Return("INT", INT(args[1]))
CallPosmod == Return("posmod", posmod(args[1], args[2]))
CallGetJ0FromDatevec == Return("getJ0FromDatevec", getJ0FromDatevec(args[1], args[2], args[3]))

Callr1 == Return("r1", r1(args[1]))
Callr3 == Return("r3", r3(args[1]))
CallR1 == Return("R1", R1(args[1]))
CallR3 == Return("R3", R3(args[1]))
CallGetMatVec == Return("getMatVec", getMatVec(args[1], args[2]))
CallGetQeci2pqw == Return("getQeci2pqw", getQeci2pqw(args[1], args[2], args[3]))
CallGetQpqw2eci == Return("getQpqw2eci", getQpqw2eci(args[1], args[2], args[3]))

CallGetDotProd == Return("getDotProd", getDotProd(args[1], args[2]))
CallGetMatMul == Return("getMatMul", getMatMul(args[1], args[2]))
\* transpose: the argument is read back from the heap when the call returns.
CallTranspose ==
    /\ pc = "start"
    /\ fn = "transpose"
    /\ pc' = "done"
    /\ ret' = transpose(args[1])
    /\ args' = LET run == transposeRun(args[1]) IN <<Deref(run.M, run.heap)>>
    /\ UNCHANGED <<fn, E_rad, n, isConverged, isOverrun, r, E_prev, passes, elements, dt, call>>

NextAlgebra == CallGetDotProd \/ CallGetMatVec \/ CallGetMatMul \/ CallTranspose
SpecAlgebra == InitAlgebra /\ [][NextAlgebra]_vars

CallGetAngularMomentum == Return("getAngularMomentum", getAngularMomentum(args[1], args[2], args[3]))
CallGetRpqwFromHETht == Return("getRpqwFromHETht", getRpqwFromHETht(args[1], args[2], args[3], args[4]))
CallGetVpqwFromHETht == Return("getVpqwFromHETht", getVpqwFromHETht(args[1], args[2], args[3], args[4]))

CallGetTaFromEaE == Return("getTaFromEaE", getTaFromEaE(args[1], args[2]))

NextGeometry ==
    CallGetTaFromEaE \/ CallGetAngularMomentum \/ CallGetRpqwFromHETht \/ CallGetVpqwFromHETht

\* The variables of the single calls.
single == <<pc, fn, args, ret, E_rad, n, isConverged, isOverrun, r, E_prev, passes>>

\* The evaluation ev of getRvFromElementsDatetime is about to run stage k + 1.
AtStage(ev, k) == fn = "getRvFromElementsDatetime" /\ call[ev].stage = k
\* The stage of ev is run, and declares new.
Advance(ev, new) == [Declare(call, ev, new) EXCEPT ![ev].stage = @ + 1]

RvTimeConversion(ev) ==
    /\ AtStage(ev, 0)
    /\ call' = Advance(ev, TimeConversion(dt[ev]))
    /\ UNCHANGED <<single, elements, dt>>

RvElementInterpolation(ev) ==
    /\ AtStage(ev, 1)
    /\ LET new == ElementInterpolation(call[ev].locals, elements[call[ev].body])
       IN  /\ call' = Advance(ev, new)
           /\ elements' = ElementsAfterInterpolation(elements, call[ev].body, new)
    /\ UNCHANGED <<single, dt>>

RvGeometryDerivation(ev) ==
    /\ AtStage(ev, 2)
    /\ call' = Advance(ev, GeometryDerivation(call[ev].locals))
    /\ UNCHANGED <<single, elements, dt>>

RvEccentricAnomaly(ev) ==
    /\ AtStage(ev, 3)
    /\ call' = Advance(ev, EccentricAnomaly(call[ev].locals))
    /\ UNCHANGED <<single, elements, dt>>

RvTrueAnomaly(ev) ==
    /\ AtStage(ev, 4)
    /\ call' = Advance(ev, TrueAnomaly(call[ev].locals))
    /\ UNCHANGED <<single, elements, dt>>

RvPerifocalState(ev) ==
    /\ AtStage(ev, 5)
    /\ call' = Advance(ev, PerifocalState(call[ev].locals))
    /\ UNCHANGED <<single, elements, dt>>

RvFrameTransform(ev) ==
    /\ AtStage(ev, 6)
    /\ call' = Advance(ev, FrameTransform(call[ev].locals))
    /\ UNCHANGED <<single, elements, dt>>

\* The return: the locals of the call are gone.
RvReturn(ev) ==
    /\ AtStage(ev, 7)
    /\ call' = [call EXCEPT ![ev].result = ReturnValue(call[ev].locals),
                            ![ev].stage = 8,
                            ![ev].locals = <<>>]
    /\ UNCHANGED <<single, elements, dt>>

NextRv ==
    \E ev \in Evals :
        \/ RvTimeConversion(ev) \/ RvElementInterpolation(ev) \/ RvGeometryDerivation(ev)
        \/ RvEccentricAnomaly(ev) \/ RvTrueAnomaly(ev) \/ RvPerifocalState(ev)
        \/ RvFrameTransform(ev) \/ RvReturn(ev)

NextPipeline == NextRv \/ NextGeometry
SpecPipeline == (InitPipeline \/ InitGeometry) /\ [][NextPipeline]_vars

NextFrame ==
    \/ Callr1 \/ Callr3 \/ CallR1 \/ CallR3
    \/ CallGetMatVec \/ CallGetQeci2pqw \/ CallGetQpqw2eci
SpecFrame == InitFrame /\ [][NextFrame]_vars

CallGetUtFromTimevec == Return("getUtFromTimevec", getUtFromTimevec(args[1], args[2], args[3]))
CallGetJdFromDateTime == Return("getJdFromDateTime", getJdFromDateTime(args[1], args[2]))
CallGetJulianCenturies == Return("getJulianCenturies", getJulianCenturies(args[1]))
CallGetCurrentElements == Return("getCurrentElements", getCurrentElements(args[1], args[2], args[3]))

NextClock ==
    \/ CallGetUtFromTimevec \/ CallGetJdFromDateTime
    \/ CallGetJulianCenturies \/ CallGetCurrentElements
SpecClock == InitClock /\ [][NextClock]_vars

NextTime == CallINT \/ CallGetJ0FromDatevec
SpecTime == InitTime /\ [][NextTime]_vars

CallGetAopFromLopRaan == Return("getAopFromLopRaan", getAopFromLopRaan(args[1], args[2]))
CallGetMaFromMlLop == Return("getMaFromMlLop", getMaFromMlLop(args[1], args[2]))

NextMod == CallPosmod \/ CallGetAopFromLopRaan \/ CallGetMaFromMlLop
SpecMod == InitMod /\ [][NextMod]_vars

\* Every call of the model.
Init == InitTime \/ InitClock \/ InitMod \/ InitAlgebra \/ InitFrame \/ InitSolver \/ InitPipeline \/ InitGeometry
Next == NextTime \/ NextClock \/ NextMod \/ NextAlgebra \/ NextFrame \/ NextSolver \/ NextPipeline
Spec == Init /\ [][Next]_vars

---------------------------------------------------------------------------
(* Claims about time conversion and the positive modulus.                  *)

Done(name) == pc = "done" /\ fn = name

\* The reference day count: the days of the proleptic Gregorian calendar before
\* year y (365 a year, a leap day every 4th year but not every 100th unless every
\* 400th), the days of the months before m, and d; 0001-01-01 0h UT is JD 1721425.5.
DaysBeforeYear(y) == 365 * (y - 1) + (y - 1) \div 4 - (y - 1) \div 100 + (y - 1) \div 400
RECURSIVE DaysBeforeMonth(_, _)
DaysBeforeMonth(y, m) == IF m = 1 THEN 0 ELSE DaysBeforeMonth(y, m - 1) + DaysInMonth(y, m - 1)
RefJ0(y, m, d) == Num(2 * (DaysBeforeYear(y) + DaysBeforeMonth(y, m) + d) + 3442849, 2)

\* (y, m, d) as one number that orders the dates.
DateKey(a) == 10000 * a[1][1] + 100 * a[2][1] + a[3][1]
J0IsReference == ret = RefJ0(args[1][1], args[2][1], args[3][1])
J0Examples ==
    /\ args = <<I(2004), I(5), I(12)>> => ret = Num(24531375, 10)
    /\ args = <<I(1957), I(10), I(4)>> => ret = Num(24361155, 10)
    /\ args = <<I(2003), I(8), I(27)>> => ret = Num(24528785, 10)

\* C1 (as amended): for every Gregorian calendar date from 1900-03-01 to 2100-02-28,
\* getJ0FromDatevec(y, m, d) is the Julian Day Number at 0h UT of the reference
\* Gregorian day count, and it is 2453137.5, 2436115.5 and 2452878.5 for 2004-05-12,
\* 1957-10-04 and 2003-08-27.
C1_J0MatchesReference1900To2100 ==
    Done("getJ0FromDatevec") =>
        /\ (19000301 <= DateKey(args) /\ DateKey(args) <= 21000228) => J0IsReference
        /\ J0Examples

\* C1 (as claimed): the same for every Gregorian calendar date.
C1_J0MatchesReferenceEveryDate ==
    Done("getJ0FromDatevec") => J0IsReference /\ J0Examples

C1_Witness ==
    /\ Done("getJ0FromDatevec")
    /\ args = <<I(2004), I(5), I(12)>>
    /\ ret = Num(24531375, 10)

\* f truncated toward zero.
Truncated(f) == IF Lt(f, I(0)) THEN Neg(MathFloor(Neg(f))) ELSE MathFloor(f)

\* C2: INT(f) is f truncated toward zero: floor(f) for f >= 0 and ceil(f) for f < 0,
\* so INT(f) = f for every integer f, negative ones included, INT(-3.4) = -3 and
\* INT(1.2) = 1 (checked on the quarters and on the two examples).
C2_INTTruncatesTowardZero ==
    /\ Done("INT") =>
        /\ ret = Truncated(args[1])
        /\ IsInteger(args[1]) => ret = args[1]
    /\ INT(Num(-34, 10)) = I(-3)
    /\ INT(Num(12, 10)) = I(1)

InHalfOpen(x, lo, hi) == Le(lo, x) /\ Lt(x, hi)

Factors == {au2km, d2r, I(-1), I(0), Num(1, 3600)}

\* C15: getCurrentElements(Q0, dQ, T) is Q0 + dQ * T, and a unit conversion commutes
\* with it: getCurrentElements(k * Q0, k * dQ, T) = k * getCurrentElements(Q0, dQ, T)
\* for every factor k, so that the semi-major axis interpolated in km is the one
\* interpolated in AU and then converted.
C15_InterpolationIsLinear ==
    Done("getCurrentElements") =>
        /\ ret = args[1] \oplus (args[2] \otimes args[3])
        /\ \A k \in Factors :
            getCurrentElements(k \otimes args[1], k \otimes args[2], args[3]) = k \otimes ret
        /\ getCurrentElements(args[1] \otimes au2km, args[2] \otimes au2km, args[3]) = ret \otimes au2km

\* A rate that counts: half a century at 1/2 a century from -2.
C15_Witness ==
    /\ Done("getCurrentElements")
    /\ args = <<I(-2), Num(1, 2), Num(1, 2)>>
    /\ ret = Num(-7, 4)

TwoPi == I(2) \otimes MathPI
\* c is in [0, 2 * pi) and differs from x by a whole number of full turns.
IsWrapOf(c, x) ==
    /\ Le(I(0), c)
    /\ Lt(c, TwoPi)
    /\ IsInteger((x \ominus c) \oslash TwoPi)

---------------------------------------------------------------------------
(* Claims about the rotation matrices and the frame transform.             *)

Identity3 == << <<I(1), I(0), I(0)>>, <<I(0), I(1), I(0)>>, <<I(0), I(0), I(1)>> >>
IsTransposeOf(T, M) == \A i \in 1..3 : \A j \in 1..3 : T[i][j] = M[j][i]
\* The sum over k of A[i][k] * B[k][j], written out.
Product3(A, B) ==
    [i \in 1..3 |-> [j \in 1..3 |->
        ((A[i][1] \otimes B[1][j]) \oplus (A[i][2] \otimes B[2][j])) \oplus (A[i][3] \otimes B[3][j])]]
OnUnitCircle(a) == (a[1] \otimes a[1]) \oplus (a[2] \otimes a[2]) = I(1)
Basis == {<<I(1), I(0), I(0)>>, <<I(0), I(1), I(0)>>, <<I(0), I(0), I(1)>>}
FullTurn == <<I(1), I(0)>>
HalfTurn == <<I(-1), I(0)>>
QuarterTurn == <<I(0), I(1)>>
\* The angle a + b, by the addition theorems.
AngleSum(a, b) ==
    <<(a[1] \otimes b[1]) \ominus (a[2] \otimes b[2]), (a[2] \otimes b[1]) \oplus (a[1] \otimes b[2])>>

\* C7: for every triple (raan, inc, aop) of angles whose cosine and sine satisfy
\* c^2 + s^2 = 1, getQpqw2eci(raan, inc, aop) is the transpose of
\* getQeci2pqw(raan, inc, aop) and the product of the two, in either order, is the
\* 3x3 identity.
C7_Qpqw2eciIsTransposeAndInverse ==
    Done("getQpqw2eci") =>
        LET Q == getQeci2pqw(args[1], args[2], args[3])
        IN  /\ \A k \in 1..3 : OnUnitCircle(args[k])
            /\ IsTransposeOf(ret, Q)
            /\ Product3(ret, Q) = Identity3
            /\ Product3(Q, ret) = Identity3

\* A triple of three different angles, none a quarter turn.
C7_Witness ==
    /\ Done("getQpqw2eci")
    /\ args = << <<Num(3, 5), Num(4, 5)>>, <<Num(4, 5), Num(-3, 5)>>, <<Num(-4, 5), Num(3, 5)>> >>
    /\ ret # getQeci2pqw(args[1], args[2], args[3])

\* getQeci2pqw(raan, inc, aop) takes a vector through R3(raan) first, then R1(inc),
\* then R3(aop): it is the product R3(aop) * R1(inc) * R3(raan).
Qeci2pqwIsOrderedProduct ==
    /\ ret = Product3(R3(args[3]), Product3(R1(args[2]), R3(args[1])))
    /\ \A v \in Basis :
        getMatVec(ret, v) = getMatVec(R3(args[3]), getMatVec(R1(args[2]), getMatVec(R3(args[1]), v)))
SwapChangesResult == getQeci2pqw(args[3], args[2], args[1]) # ret

\* C8 (as amended): getQeci2pqw(raan, inc, aop) is R3(aop) * R1(inc) * R3(raan) in
\* that order, and exchanging raan and aop changes the result whenever inc is not a
\* multiple of a full turn and raan differs from aop, unless inc is a half turn and
\* raan and aop differ by a half turn.
C8_Qeci2pqwOrderExceptHalfTurns ==
    Done("getQeci2pqw") =>
        /\ Qeci2pqwIsOrderedProduct
        /\ (/\ args[2] # FullTurn
            /\ args[1] # args[3]
            /\ ~(args[2] = HalfTurn /\ args[1] = AngleSum(args[3], HalfTurn)))
                => SwapChangesResult

\* C8 (as claimed): exchanging raan and aop changes the result whenever inc is not a
\* multiple of a full turn and raan differs from aop.
C8_Qeci2pqwOrderAndSwap ==
    Done("getQeci2pqw") =>
        /\ Qeci2pqwIsOrderedProduct
        /\ (args[2] # FullTurn /\ args[1] # args[3]) => SwapChangesResult

C8_Witness ==
    /\ Done("getQeci2pqw")
    /\ args = << <<Num(3, 5), Num(4, 5)>>, QuarterTurn, <<Num(-4, 5), Num(3, 5)>> >>
    /\ SwapChangesResult

\* C9: for every angle a, R1(a) = transpose(r1(a)) and R3(a) = transpose(r3(a)), and
\* the frame transformation equals the rotation only if sin(a) = 0.
C9_FrameTransformIsTransposedRotation ==
    /\ Done("R1") =>
        /\ ret = transpose(r1(args[1]))
        /\ IsTransposeOf(ret, r1(args[1]))
        /\ ret = r1(args[1]) => MathSin(args[1]) = I(0)
    /\ Done("R3") =>
        /\ ret = transpose(r3(args[1]))
        /\ IsTransposeOf(ret, r3(args[1]))
        /\ ret = r3(args[1]) => MathSin(args[1]) = I(0)

C9_Witness ==
    /\ Done("R1")
    /\ args = << <<Num(3, 5), Num(4, 5)>> >>
    /\ ret[2][3] = Num(4, 5)
    /\ ret[3][2] = Num(-4, 5)

\* C10: the rotations turn a vector counter-clockwise about their axis:
\* getMatVec(r1(quarter turn), [0, 1, 0]) = [0, 0, 1] and
\* getMatVec(r3(quarter turn), [1, 0, 0]) = [0, 1, 0]; and for every angle r1 leaves
\* a vector along x and r3 a vector along z unchanged.
C10_RotationsAreRightHanded ==
    Done("getMatVec") =>
        /\ (args[1] = r1(QuarterTurn) /\ args[2] = <<I(0), I(1), I(0)>>)
                => ret = <<I(0), I(0), I(1)>>
        /\ (args[1] = r3(QuarterTurn) /\ args[2] = <<I(1), I(0), I(0)>>)
                => ret = <<I(0), I(1), I(0)>>
        /\ \A a \in Angles :
            /\ (args[1] = r1(a) /\ args[2][2] = I(0) /\ args[2][3] = I(0)) => ret = args[2]
            /\ (args[1] = r3(a) /\ args[2][1] = I(0) /\ args[2][2] = I(0)) => ret = args[2]

C10_Witness ==
    /\ Done("getMatVec")
    /\ args = <<r1(QuarterTurn), <<I(0), I(1), I(0)>> >>
    /\ ret = <<I(0), I(0), I(1)>>

---------------------------------------------------------------------------
(* Claims about the linear algebra.                                        *)

\* T is the N-by-M matrix with T[j][i] = A[i][j].
IsRectTransposeOf(T, A) ==
    /\ Len(T) = Len(A[1])
    /\ \A j \in 1..Len(T) :
        /\ Len(T[j]) = Len(A)
        /\ \A i \in 1..Len(A) : T[j][i] = A[i][j]
\* No two rows of the result of transpose(A) are one array, nor is any a row of A.
RowsAreDistinctArrays(A) ==
    LET run == transposeRun(A)
    IN  /\ \A j \in 1..Len(run.Mt) : \A k \in 1..Len(run.Mt) : j # k => run.Mt[j] # run.Mt[k]
        /\ \A j \in 1..Len(run.Mt) : \A i \in 1..Len(run.M) : run.Mt[j] # run.M[i]

\* C19: for every non-empty rectangular M-by-N matrix A, square or not, transpose(A)
\* is the N-by-M matrix T with T[j][i] = A[i][j], its rows are distinct arrays,
\* transpose(transpose(A)) is A, and the call leaves A as it was.
C19_TransposeOfRectangular ==
    /\ [](Done("transpose") =>
            /\ IsRectTransposeOf(ret, args[1])
            /\ RowsAreDistinctArrays(args[1])
            /\ transpose(ret) = args[1])
    /\ [][fn = "transpose" => args' = args]_vars

\* The 2-by-3 matrix of the repository's test.
C19_Witness ==
    /\ Done("transpose")
    /\ args = << << <<I(1), I(2), I(3)>>, <<I(4), I(5), I(6)>> >> >>
    /\ ret = << <<I(1), I(4)>>, <<I(2), I(5)>>, <<I(3), I(6)>> >>

\* The sum over k of A[i][k] * v[k], written out.
MatVec3(A, v) ==
    [i \in 1..3 |-> ((A[i][1] \otimes v[1]) \oplus (A[i][2] \otimes v[2])) \oplus (A[i][3] \otimes v[3])]

\* C20: for all 3-by-3 matrices A, B and 3-vectors v with bounded integer entries,
\* getMatMul(A, B)[i][j] is the sum over k of A[i][k] * B[k][j], getMatVec(A, v)[i]
\* is the sum over k of A[i][k] * v[k], getMatVec(getMatMul(A, B), v) is
\* getMatVec(A, getMatVec(B, v)), and neither function changes its arguments.
C20_ProductsAreSumsOverK ==
    /\ [](Done("getMatMul") =>
            /\ ret = Product3(args[1], args[2])
            /\ \A v \in Vectors : getMatVec(ret, v) = getMatVec(args[1], getMatVec(args[2], v)))
    /\ [](Done("getMatVec") => ret = MatVec3(args[1], args[2]))
    /\ [](Done("getDotProd") =>
            (args = << <<I(1), I(2), I(3)>>, <<I(4), I(-5), I(6)>> >> => ret = I(12)))
    /\ [][(fn # "transpose") => args' = args]_vars

\* The product of the repository's test.
C20_Witness ==
    /\ Done("getMatMul")
    /\ args = << << <<I(1), I(0), I(2)>>, <<I(0), I(3), I(0)>>, <<I(4), I(0), I(5)>> >>,
                 << <<I(0), I(6), I(0)>>, <<I(7), I(0), I(8)>>, <<I(0), I(9), I(0)>> >> >>
    /\ ret = << <<I(0), I(24), I(0)>>, <<I(21), I(0), I(24)>>, <<I(0), I(69), I(0)>> >>

---------------------------------------------------------------------------
(* Claims about the anomaly solver.                                        *)

IsNumber(x) == DOMAIN x = 1..2 /\ x[1] \in Int /\ x[2] \in Nat

\* C4: for every input (M, e) the loop body of getEaFromMaE is executed at most
\* 1000 times before the function returns.
C4_AtMost1000Passes == fn = "getEaFromMaE" => passes <= 1000

\* C5: when getEaFromMaE stops with the budget exhausted and no correction below
\* the tolerance, it returns a plain number, the estimate of the final pass with
\* that pass's correction applied; every return value is a plain number, whatever
\* the outcome.
C5_OverrunReturnsLastEstimate ==
    Done("getEaFromMaE") =>
        /\ IsNumber(ret)
        /\ (isOverrun /\ ~isConverged) => ret = E_prev \ominus r

C5_Witness ==
    /\ Done("getEaFromMaE")
    /\ isOverrun /\ ~isConverged
    /\ IsFinite(ret)
    /\ r # I(0)
    /\ ret # E_prev

---------------------------------------------------------------------------
(* Claims about getRvFromElementsDatetime.                                 *)

Running == fn = "getRvFromElementsDatetime"
\* The evaluation ev has run k stages at least and has not returned.
Past(ev, k) == Running /\ call[ev].stage >= k /\ call[ev].stage < 8
Returned(ev) == Running /\ call[ev].stage = 8
TypeOKPipeline == Running => \A ev \in Evals : call[ev].stage \in 0..8

\* The element record of an evaluation, its instant and its locals.
PoeOf(ev) == elements[call[ev].body]
LocalsOf(ev) == call[ev].locals
AtJ2000(ev) == Running /\ dt[ev] = Instant(0)
\* An element record with every rate set to zero.
WithoutRates(poe) ==
    [poe EXCEPT !.da_au = I(0), !.de = I(0), !.dinc_sec = I(0),
                !.draan_sec = I(0), !.dlop_sec = I(0), !.dml_sec = I(0)]
\* The six interpolations of lines 684-689 as they come out of getCurrentElements at
\* T0, before the wrap: <<a, e, inc, raan, lop, ml>>.
Interpolated(poe, T0) ==
    <<getCurrentElements(poe.a_au \otimes au2km, poe.da_au \otimes au2km, T0),
      getCurrentElements(poe.e, poe.de, T0),
      getCurrentElements(poe.inc_deg \otimes d2r, (poe.dinc_sec \oslash I(3600)) \otimes d2r, T0),
      getCurrentElements(poe.raan_deg \otimes d2r, (poe.draan_sec \oslash I(3600)) \otimes d2r, T0),
      getCurrentElements(poe.lop_deg \otimes d2r, (poe.dlop_sec \oslash I(3600)) \otimes d2r, T0),
      getCurrentElements(poe.ml_deg \otimes d2r, (poe.dml_sec \oslash I(3600)) \otimes d2r, T0)>>
\* The unit-converted base values.
BaseValuesOf(poe) ==
    <<poe.a_au \otimes au2km, poe.e, poe.inc_deg \otimes d2r, poe.raan_deg \otimes d2r,
      poe.lop_deg \otimes d2r, poe.ml_deg \otimes d2r>>

\* C14: for the instant 2000-01-01T12:00:00.000Z (UTC month index 0, passed on as
\* month 1) getRvFromElementsDatetime computes JD = 2451545 and T0 = 0; every
\* interpolated element is then its unit-converted base value (the locals hold a and
\* e as such and the four angles wrapped into [0, 2 pi)), and the result is the one
\* of the same record with every rate set to zero.
C14_J2000GivesBaseValues ==
    \A ev \in Evals :
        AtJ2000(ev) =>
            /\ Past(ev, 1) =>
                /\ getUTCMonth(dt[ev]) = I(0)
                /\ LocalsOf(ev).m = I(1)
                /\ LocalsOf(ev).JD = I(2451545)
                /\ LocalsOf(ev).T0 = I(0)
            /\ Past(ev, 2) =>
                /\ Interpolated(PoeOf(ev), LocalsOf(ev).T0) = BaseValuesOf(PoeOf(ev))
                /\ LocalsOf(ev).a_km = BaseValuesOf(PoeOf(ev))[1]
                /\ LocalsOf(ev).e = BaseValuesOf(PoeOf(ev))[2]
                /\ LocalsOf(ev).inc_rad = posmod(BaseValuesOf(PoeOf(ev))[3], TwoPi)
                /\ LocalsOf(ev).raan_rad = posmod(BaseValuesOf(PoeOf(ev))[4], TwoPi)
                /\ LocalsOf(ev).lop_rad = posmod(BaseValuesOf(PoeOf(ev))[5], TwoPi)
                /\ LocalsOf(ev).ml_rad = posmod(BaseValuesOf(PoeOf(ev))[6], TwoPi)
            /\ Returned(ev) =>
                call[ev].result = getRvFromElementsDatetime(WithoutRates(PoeOf(ev)), dt[ev])
\* An evaluation at J2000 of a record with rates other than zero has returned.
C14_Witness ==
    \E ev \in Evals :
        /\ AtJ2000(ev) /\ Returned(ev)
        /\ call[ev].body = "retrograde"
        /\ PoeOf(ev) # WithoutRates(PoeOf(ev))

\* The structure c < 0 ? c + b : c with c = a % b, by which posmod leaves [0, b) for
\* no real a: what a wrapped Number that the model carries unevaluated looks like.
IsPosmodTerm(x, b) ==
    /\ IsTerm(x) /\ ~IsNaN(x)
    /\ x[1] = "ifneg"
    /\ IsTerm(x[3]) /\ x[3][1] = "rem" /\ x[3][3] = b
    /\ x = posmod(x[3][2], b)
\* x rad is within [0, 2 pi): as a comparison of Numbers, or for an unevaluated one
\* as the outcome of posmod by 2 pi.
InTurn(x) == IF IsTerm(x) THEN IsPosmodTerm(x, TwoPi) ELSE InHalfOpen(x, I(0), TwoPi)

\* An element record of the data model: every field is present and the
\* eccentricity is within [0, 1).
WithinDataModel(poe) ==
    /\ \A field \in DOMAIN poe : ~IsNaN(poe[field])
    /\ InHalfOpen(poe.e, I(0), I(1))

Supplied(mu_km3ps2) == mu_km3ps2 # undefined
\* The three results written out with the gravitational parameter mu.
AngularMomentumWith(a_km, e, mu) == MathSqrt((mu \otimes a_km) \otimes (I(1) \ominus (e \otimes e)))
RpqwWith(h, e, tht, mu) ==
    <<((h \otimes h) \oslash (mu \otimes (I(1) \oplus (e \otimes tht[1])))) \otimes tht[1],
      ((h \otimes h) \oslash (mu \otimes (I(1) \oplus (e \otimes tht[1])))) \otimes tht[2],
      I(0)>>
VpqwWith(h, e, tht, mu) ==
    <<(mu \oslash h) \otimes Neg(tht[2]), (mu \oslash h) \otimes (e \oplus tht[1]), I(0)>>

\* C18: within one evaluation of getRvFromElementsDatetime the angular momentum, the
\* perifocal position and the perifocal velocity are all computed with the default
\* MU_SUN_KM3PS2 = 1.327e11, the three functions being called without a mu
\* argument; each of getAngularMomentum, getRpqwFromHETht and getVpqwFromHETht uses
\* the caller's value when a mu argument is supplied, and the default otherwise.
C18_SameGravitationalParameter ==
    /\ MU_SUN_KM3PS2 = Literal(1327, 8)
    /\ \A ev \in Evals :
        /\ Past(ev, 3) =>
            LocalsOf(ev).h_km2ps =
                AngularMomentumWith(LocalsOf(ev).a_km, LocalsOf(ev).e, MU_SUN_KM3PS2)
        /\ Past(ev, 6) =>
            /\ LocalsOf(ev).rPqw_km =
                    RpqwWith(LocalsOf(ev).h_km2ps, LocalsOf(ev).e,
                             PointOf(LocalsOf(ev).tht_rad), MU_SUN_KM3PS2)
            /\ LocalsOf(ev).vPqw_kmps =
                    VpqwWith(LocalsOf(ev).h_km2ps, LocalsOf(ev).e,
                             PointOf(LocalsOf(ev).tht_rad), MU_SUN_KM3PS2)
    /\ Done("getAngularMomentum") =>
        ret = AngularMomentumWith(args[1], args[2],
                                  IF Supplied(args[3]) THEN args[3] ELSE MU_SUN_KM3PS2)
    /\ Done("getRpqwFromHETht") =>
        ret = RpqwWith(args[1], args[2], PointOf(args[3]),
                       IF Supplied(args[4]) THEN args[4] ELSE MU_SUN_KM3PS2)
    /\ Done("getVpqwFromHETht") =>
        ret = VpqwWith(args[1], args[2], PointOf(args[3]),
                       IF Supplied(args[4]) THEN args[4] ELSE MU_SUN_KM3PS2)
    /\ Done("getAngularMomentum") /\ args = <<I(9), I(0), I(4)>> => ret = I(6)
    /\ Done("getRpqwFromHETht") /\ args = <<I(6), I(0), I(0), I(4)>> => ret = <<I(9), I(0), I(0)>>
    /\ Done("getVpqwFromHETht") /\ args = <<I(6), I(0), I(0), I(4)>> => ret = <<I(0), Num(2, 3), I(0)>>
\* An evaluation has its angular momentum and both perifocal vectors, none of them
\* zero, so the parameter has entered each.
C18_Witness ==
    \E ev \in Evals :
        /\ Past(ev, 6)
        /\ IsTerm(LocalsOf(ev).h_km2ps)
        /\ LocalsOf(ev).rPqw_km # <<I(0), I(0), I(0)>>
        /\ LocalsOf(ev).vPqw_kmps # <<I(0), I(0), I(0)>>

\* C16: getRvFromElementsDatetime is pure: no step of a call changes a field of an
\* element record or the Date argument (the module constant MU_SUN_KM3PS2 is a
\* definition, which no step can assign), nothing the call has written is left when
\* it has returned, and two calls with equal arguments, however their steps and those
\* of other calls are ordered, return equal position/velocity pairs.
C16_EvaluationIsPure ==
    /\ [][Running => (elements' = elements /\ dt' = dt /\ single' = single)]_vars
    /\ [](Running => elements = [body \in Bodies |-> ElementsOf(body)])
    /\ [](\A ev \in Evals : Returned(ev) => call[ev].locals = <<>>)
    /\ [](\A ev1, ev2 \in Evals :
            (Returned(ev1) /\ Returned(ev2)
              /\ PoeOf(ev1) = PoeOf(ev2) /\ call[ev1].body = call[ev2].body /\ dt[ev1] = dt[ev2])
                => call[ev1].result = call[ev2].result)
\* Two calls for the record with a rate of the eccentricity, at the same instant
\* away from J2000, have both returned a pair.
C16_Witness ==
    /\ Returned(1) /\ Returned(2)
    /\ call[1].body = "eccentric" /\ call[2].body = "eccentric"
    /\ dt[1] = Instant(1) /\ dt[2] = Instant(1)
    /\ Len(call[1].result) = 2 /\ Len(call[1].result[1]) = 3 /\ Len(call[1].result[2]) = 3

\* The call ev is left as it is by a step.
Untouched(ev) == call'[ev] = call[ev]

\* C17: when the steps of two evaluations of getRvFromElementsDatetime, for different
\* bodies or different instants, are interleaved in any order, each returns what it
\* returns when run alone, and a step of one evaluation writes nothing that the
\* other one holds.
C17_InterleavedAsAlone ==
    /\ [](\A ev \in Evals :
            Returned(ev) =>
                call[ev].result = getRvFromElementsDatetime(ElementsOf(call[ev].body), dt[ev]))
    /\ [][Running => \E ev \in Evals : \A other \in Evals \ {ev} : Untouched(other)]_vars
\* Two evaluations for different bodies and different instants have both returned,
\* with different results.
C17_Witness ==
    /\ Returned(1) /\ Returned(2)
    /\ call[1].body # call[2].body
    /\ dt[1] # dt[2]
    /\ call[1].result # call[2].result

---------------------------------------------------------------------------
(* More claims about the anomaly solver.                                   *)

\* getEaFromMaE has its first estimate and has run no pass.
Entered == fn = "getEaFromMaE" /\ pc = "loop" /\ passes = 0
Half(x) == x \oslash I(2)

\* C26: the first estimate of getEaFromMaE is M + 0.5 * e when M < pi and
\* M - 0.5 * e otherwise; M = pi exactly takes M - 0.5 * e.
C26_FirstEstimateBySideOfPi ==
    Entered =>
        /\ Lt(args[1], MathPI) => E_rad = Half((I(2) \otimes args[1]) \oplus args[2])
        /\ ~Lt(args[1], MathPI) => E_rad = Half((I(2) \otimes args[1]) \ominus args[2])
        /\ args[1] = MathPI => E_rad = MathPI \ominus Half(args[2])
\* The first estimate for M = pi and an eccentricity other than 0.
C26_Witness ==
    /\ Entered
    /\ args[1] = MathPI
    /\ args[2] # I(0)
    /\ Lt(E_rad, MathPI)

\* The value returned and the passes made for a circular orbit.
CircularReturnsM == ret = args[1] /\ passes = 1 /\ r = I(0) /\ isConverged

\* C30: for a circular orbit (e = 0) and every finite M, getEaFromMaE(M, 0) returns M
\* itself after exactly one pass through the loop: the first correction is 0 and
\* counts as converged.
C30_CircularOrbitOnePassFiniteM ==
    (Done("getEaFromMaE") /\ args[2] = I(0) /\ IsFinite(args[1])) => CircularReturnsM
\* C30 as stated, for every M: an infinite mean anomaly included.
C30_CircularOrbitOnePass ==
    (Done("getEaFromMaE") /\ args[2] = I(0)) => CircularReturnsM
\* A circular orbit with a mean anomaly other than 0 has been solved.
C30_Witness ==
    /\ Done("getEaFromMaE")
    /\ args[2] = I(0)
    /\ args[1] = I(4)
    /\ ret = I(4)

\* A pass of the loop is a step that counts one.
IsPass == fn = "getEaFromMaE" /\ passes' = passes + 1

\* C25: when getEaFromMaE exits with a correction below 1e-8, it returns the estimate
\* at which that correction was measured, the correction not being applied, so
\* that |(E - e * sin(E) - M) / (1 - e * cos(E))| < 1e-8 holds of the returned E with
\* the sine and cosine the pass has seen; in every pass that is not converged the
\* estimate is replaced by E - f / df.
C25_ConvergedReturnsMeasuredEstimate ==
    /\ []((Done("getEaFromMaE") /\ isConverged) =>
            /\ ret = E_prev
            /\ Lt(MathAbs(r), tol)
            /\ \E a \in AnglesOf(ret) : r = Correction(ret, a, args[1], args[2]))
    /\ [][(IsPass /\ ~isConverged') => (E_rad' = E_rad \ominus r')]_vars
    /\ [][(IsPass /\ isConverged') => (E_rad' = E_rad)]_vars
\* A return after a correction below the tolerance and other than 0, and after a pass
\* that was not converged.
C25_Witness ==
    /\ Done("getEaFromMaE")
    /\ isConverged
    /\ r # I(0)
    /\ passes >= 2

\* C24: getEaFromMaE terminates for every input: whatever the corrections are (never
\* below the tolerance, oscillating, infinite or NaN), a call that has begun returns,
\* because every pass increases the counter n by one and the loop is left once n
\* exceeds the cap nMax.
C24_SolverTerminates ==
    /\ (fn = "getEaFromMaE" /\ pc = "start") ~> Done("getEaFromMaE")
    /\ [][IsPass => n' = n + 1]_vars
    /\ []((fn = "getEaFromMaE" /\ nMax < n) => isOverrun)
    /\ [](fn = "getEaFromMaE" => n <= nMax + 1)
\* A return after corrections that were NaN throughout, when the counter has passed
\* the cap.
C24_Witness ==
    /\ Done("getEaFromMaE")
    /\ nMax < n
    /\ IsNaN(r)
    /\ IsNaN(ret)

---------------------------------------------------------------------------
(* Claims about the perifocal state and the true anomaly.                  *)

Square(x) == x \otimes x
\* A Number that the model has the value of.
IsValue(x) == ~IsTerm(x) /\ IsFinite(x)
\* (h^2 / mu) / (1 + e * cos(nu)) for the call of getRpqwFromHETht at hand.
ConicRadius ==
    (Square(args[1]) \oslash args[4]) \oslash (I(1) \oplus (args[2] \otimes PointOf(args[3])[1]))
\* h, e and nu are valid and mu > 0 is supplied, with cos(nu) and sin(nu) rational.
ValidPerifocalCall ==
    /\ IsValue(args[1]) /\ Lt(I(0), args[1])
    /\ InHalfOpen(args[2], I(0), I(1))
    /\ IsValue(PointOf(args[3])[1]) /\ IsValue(PointOf(args[3])[2])
    /\ Supplied(args[4]) /\ IsValue(args[4]) /\ Lt(I(0), args[4])

\* C21: for all valid (h, e, nu) and mu > 0 the Euclidean norm of
\* getRpqwFromHETht(h, e, nu, mu) is (h^2 / mu) / (1 + e * cos(nu)), which is not
\* negative and whose square is the sum of the squares of the components; and the
\* third component of getRpqwFromHETht and of getVpqwFromHETht is exactly 0.
C21_PerifocalNormAndPlane ==
    /\ (Done("getRpqwFromHETht") /\ ValidPerifocalCall) =>
        /\ Le(I(0), ConicRadius)
        /\ (Square(ret[1]) \oplus Square(ret[2])) \oplus Square(ret[3]) = Square(ConicRadius)
    /\ (Done("getRpqwFromHETht") \/ Done("getVpqwFromHETht")) => (Len(ret) = 3 /\ ret[3] = I(0))
\* The position for an eccentric orbit at a true anomaly outside the axes.
C21_Witness ==
    /\ Done("getRpqwFromHETht")
    /\ ValidPerifocalCall
    /\ args[2] = Num(3, 5)
    /\ ret[1] # I(0) /\ ret[2] # I(0)

\* An angle that the model carries as posmod(2 * atan2(y, x), 2 pi) with y and x known
\* and x > 0: 2 * atan2(y, x) is then within (-pi, pi) and has the sign of y, so the
\* wrapped angle is within (0, pi) for y > 0 and within (pi, 2 pi) for y < 0.
IsWrappedDoubleAtan2(ta) ==
    /\ IsPosmodTerm(ta, TwoPi)
    /\ IsTerm(ta[3][2]) /\ ta[3][2][1] = "mul" /\ ta[3][2][2] = I(2)
    /\ IsTerm(ta[3][2][3]) /\ ta[3][2][3][1] = "atan2"
    /\ IsValue(ta[3][2][3][2]) /\ IsValue(ta[3][2][3][3])
    /\ Lt(I(0), ta[3][2][3][3])
Atan2Y(ta) == ta[3][2][3][2]
\* The open half revolutions (0, pi) and (pi, 2 pi), of an eccentric anomaly drawn
\* and of a true anomaly returned.
InFirstHalf(x) ==
    IF IsValue(x) THEN Lt(I(0), x) /\ Lt(x, MathPI)
    ELSE IF IsPythagorean(x) THEN x[2][1] > 0
    ELSE IsWrappedDoubleAtan2(x) /\ Lt(I(0), Atan2Y(x))
InSecondHalf(x) ==
    IF IsValue(x) THEN Lt(MathPI, x) /\ Lt(x, TwoPi)
    ELSE IF IsPythagorean(x) THEN FALSE
    ELSE IsWrappedDoubleAtan2(x) /\ Lt(Atan2Y(x), I(0))

\* C27: for every e in [0, 1) and every eccentric anomaly E in [0, 2 pi),
\* getTaFromEaE(E, e) is in the half revolution of E: 0 for E = 0, within (0, pi) for E
\* within (0, pi), within (pi, 2 pi) for E within (pi, 2 pi); it is never negative.
C27_TrueAnomalyInHalfOfEccentric ==
    (Done("getTaFromEaE") /\ InHalfOpen(args[2], I(0), I(1))) =>
        /\ args[1] = I(0) => ret = I(0)
        /\ InFirstHalf(args[1]) => InFirstHalf(ret)
        /\ InSecondHalf(args[1]) => InSecondHalf(ret)
        /\ IF IsValue(ret) THEN Le(I(0), ret) ELSE IsPosmodTerm(ret, TwoPi)
\* An eccentric anomaly of three quarter turns, for which atan2 is negative, with
\* e = 0 where the true anomaly is a value: three quarter turns.
C27_Witness ==
    /\ Done("getTaFromEaE")
    /\ InSecondHalf(args[1])
    /\ args[2] = I(0)
    /\ ret = I(3) \otimes (MathPI \oslash I(2))

---------------------------------------------------------------------------
(* Claims about the order of the stages.                                   *)

\* The constants that each of the seven stages declares.
StageNames(k) ==
    IF k = 1 THEN {"y", "m", "d", "H", "M", "S", "J0", "UT", "JD", "T0"}
    ELSE IF k = 2 THEN {"a_km", "e", "inc_rad", "raan_rad", "lop_rad", "ml_rad"}
    ELSE IF k = 3 THEN {"h_km2ps", "aop_rad", "M_rad"}
    ELSE IF k = 4 THEN {"E_rad"}
    ELSE IF k = 5 THEN {"tht_rad"}
    ELSE IF k = 6 THEN {"rPqw_km", "vPqw_kmps"}
    ELSE {"Qpqw2eci", "rHcec_km", "vHcec_kmps"}
NamesUpTo(k) == UNION {StageNames(j) : j \in 1..k}
Restrict(l, names) == [x \in names |-> l[x]]
\* What stage k of the evaluation ev declares when all it can read is the arguments
\* of ev and what the stages before k of ev have declared.
StageFromEarlier(ev, k) ==
    LET l == Restrict(LocalsOf(ev), NamesUpTo(k - 1))
    IN  IF k = 1 THEN TimeConversion(dt[ev])
        ELSE IF k = 2 THEN ElementInterpolation(l, PoeOf(ev))
        ELSE IF k = 3 THEN GeometryDerivation(l)
        ELSE IF k = 4 THEN EccentricAnomaly(l)
        ELSE IF k = 5 THEN TrueAnomaly(l)
        ELSE IF k = 6 THEN PerifocalState(l)
        ELSE FrameTransform(l)

\* C28: one call of getRvFromElementsDatetime runs the stages once each in the order
\* time conversion, element interpolation, geometry derivation, eccentric anomaly,
\* true anomaly, perifocal state, frame transform; each stage reads only what
\* earlier stages of the same call have declared (and the arguments); the one
\* matrix built from (raan, inc, aop) is applied to the perifocal position and to
\* the perifocal velocity; and the result is the pair [position, velocity].
C28_StagesInOrder ==
    /\ [][Running => \A ev \in Evals :
            \/ Untouched(ev)
            \/ /\ call'[ev].stage = call[ev].stage + 1
               /\ call[ev].stage < 7 =>
                    DOMAIN call'[ev].locals =
                        DOMAIN call[ev].locals \cup StageNames(call'[ev].stage)
               /\ call[ev].stage = 7 =>
                    call'[ev].result = <<call[ev].locals.rHcec_km, call[ev].locals.vHcec_kmps>>]_vars
    /\ [](\A ev \in Evals : \A k \in 1..7 :
            Past(ev, k) =>
                /\ StageNames(k) \subseteq DOMAIN LocalsOf(ev)
                /\ (call[ev].stage = k => DOMAIN LocalsOf(ev) = NamesUpTo(k))
                /\ Restrict(LocalsOf(ev), StageNames(k)) = StageFromEarlier(ev, k))
    /\ [](\A ev \in Evals :
            Past(ev, 7) =>
                /\ LocalsOf(ev).Qpqw2eci =
                     getQpqw2eci(PointOf(LocalsOf(ev).raan_rad), PointOf(LocalsOf(ev).inc_rad),
                                 PointOf(LocalsOf(ev).aop_rad))
                /\ LocalsOf(ev).rHcec_km = getMatVec(LocalsOf(ev).Qpqw2eci, LocalsOf(ev).rPqw_km)
                /\ LocalsOf(ev).vHcec_kmps = getMatVec(LocalsOf(ev).Qpqw2eci, LocalsOf(ev).vPqw_kmps))
\* One call has returned a position and a velocity that differ while the other has
\* run some of its stages.
C28_Witness ==
    /\ Returned(1)
    /\ call[1].result[1] # call[1].result[2]
    /\ Past(2, 3)
    /\ call[2].stage = 5

---------------------------------------------------------------------------
(* Claims about successive days.                                           *)

\* The calendar date that follows the date a.
Following(a) ==
    IF a[3][1] < DaysInMonth(a[1][1], a[2][1]) THEN <<a[1], a[2], I(a[3][1] + 1)>>
    ELSE IF a[2][1] < 12 THEN <<a[1], I(a[2][1] + 1), I(1)>>
    ELSE <<I(a[1][1] + 1), I(1), I(1)>>
J0OfFollowing == LET next == Following(args) IN getJ0FromDatevec(next[1], next[2], next[3])
\* Times of day in hours: midnight, noon and a quarter of an hour before midnight.
DayTimes == {I(0), I(12), Num(95, 4)}

\* C29: for every valid calendar date from 1901-01-01 to 2099-12-30,
\* getJ0FromDatevec of the following calendar date is exactly 1 greater than
\* getJ0FromDatevec of the date, across month ends, year ends and 29 February of leap
\* years; so the Julian Date of (date, time of day) increases strictly with the
\* instant: within the day, and from any time of the day to any time of the next.
C29_SuccessiveDaysDifferByOne ==
    (Done("getJ0FromDatevec") /\ 19010101 <= DateKey(args) /\ DateKey(args) <= 20991230) =>
        LET J0 == J0OfFollowing
            JD == [t \in DayTimes |-> getJdFromDateTime(ret, t)]
            JDOfFollowing == [t \in DayTimes |-> getJdFromDateTime(J0, t)]
        IN  /\ J0 = ret \oplus I(1)
            /\ \A t1, t2 \in DayTimes :
                /\ Lt(JD[t1], JDOfFollowing[t2])
                /\ Lt(t1, t2) => Lt(JD[t1], JD[t2])
\* The day count of 29 February of a leap year, which 1 March follows.
C29_Witness ==
    /\ Done("getJ0FromDatevec")
    /\ args = <<I(2004), I(2), I(29)>>
    /\ Following(args) = <<I(2004), I(3), I(1)>>
    /\ J0OfFollowing = ret \oplus I(1)

---------------------------------------------------------------------------
(* Claims about records outside the data model.                            *)

\* typeof x is "number": a value, NaN, an infinity or a Number that is not
\* computed, and not undefined.
TypeofNumber(x) == x # undefined /\ (IsTerm(x) \/ IsNumber(x))
\* An array of three Numbers.
IsVector3(v) == Len(v) = 3 /\ \A i \in 1..3 : TypeofNumber(v[i])
AllNaN == <<NaN, NaN, NaN>>
\* The evaluation ev has a record with a field missing, or with an eccentricity
\* that is not within [0, 1).
OutsideDataModel(ev) == Running /\ ~WithinDataModel(PoeOf(ev))

\* C23: an evaluation of getRvFromElementsDatetime for a record with an eccentricity
\* outside [0, 1) or with a missing field goes from stage to stage as any other
\* (nothing is thrown and no stage is skipped); getEaFromMaE returns a Number to
\* it; and what it returns is a pair of arrays of three Numbers, all six of them NaN
\* for a record without ml_deg and for one with the eccentricity 3/2.
C23_InvalidRecordsAreNotRejected ==
    /\ [](\A ev \in Evals :
            OutsideDataModel(ev) =>
                /\ Past(ev, 4) => TypeofNumber(LocalsOf(ev).E_rad)
                /\ Returned(ev) =>
                    /\ Len(call[ev].result) = 2
                    /\ IsVector3(call[ev].result[1])
                    /\ IsVector3(call[ev].result[2])
                    /\ call[ev].body \in {"hyperbolic", "incomplete"} =>
                            call[ev].result = <<AllNaN, AllNaN>>)
    /\ [][\A ev \in Evals :
            (OutsideDataModel(ev) /\ ~Untouched(ev)) =>
                call'[ev].stage = call[ev].stage + 1]_vars
\* The record with the eccentricity 3/2 and the record without ml_deg have both
\* been evaluated to the end, the second after 1001 passes of the solver on NaN.
C23_Witness ==
    /\ Returned(1) /\ call[1].body = "hyperbolic"
    /\ Returned(2) /\ call[2].body = "incomplete"
    /\ Lt(I(1), PoeOf(1).e)
    /\ PoeOf(2).ml_deg = undefined
    /\ call[1].result = <<AllNaN, AllNaN>>
    /\ call[2].result = <<AllNaN, AllNaN>>

====
